---- MODULE Spec2Model ----
(***************************************************************************)
(* The session lifecycle and message-routing engine of pi-irc-messenger    *)
(* (src/src/index.ts), as a state machine.                                 *)
(*                                                                         *)
(* JavaScript strings that the code measures, slices, prefixes or searches *)
(* (nicknames, channel names, message text, buffer keys) are sequences of  *)
(* one-character strings, so that length, substring(0, 8), startsWith,     *)
(* includes, join("\n") and template concatenation are computed and not    *)
(* assumed; the fixed text of a template is one piece of the sequence.     *)
(* Strings that the code only stores or compares (host, profile name, file *)
(* content, error kinds) are TLA+ strings; "" is the absent or falsy       *)
(* value.                                                                  *)
(*                                                                         *)
(* Every handler runs to completion before the next one starts (one        *)
(* JavaScript event loop), so an action is one handler execution together  *)
(* with the promise continuations (microtasks) it schedules.  Time passes   *)
(* only in the specification that has the Tick action, where a flush timer *)
(* fires when it is due; in the others `now` stays 0 and an armed timer    *)
(* may fire at any later step.                                             *)
(***************************************************************************)
EXTENDS Integers, Sequences, FiniteSets, TLC

\* ---------------------------------------------------------------------------
\* Bounds of the model
\* ---------------------------------------------------------------------------

\* Number of transport instances (new IRCClient()) a behaviour may create.
MaxClients == 2

\* Number of payloads one aggregation buffer may hold before it is flushed.
MaxBurst == 2

\* The longest time, in ms, that passes between two steps, and the time at
\* which the clock stops.
TickMs == 200

MaxTime == 2400

\* ---------------------------------------------------------------------------
\* Program constants
\* ---------------------------------------------------------------------------

\* nick.length > 8 / substring(0, 8)
MaxNickLen == 8

\* (params.port as number) || 6667
DefaultPort == 6667

\* The quiet interval of a chat buffer and of a membership buffer, in ms
MESSAGE_BUFFER_DELAY_MS == 1000

EVENT_BUFFER_DELAY_MS == 2000

\* ---------------------------------------------------------------------------
\* String helpers (JavaScript string operations on character sequences)
\* ---------------------------------------------------------------------------

\* s.startsWith(p)
StartsWith(s, p) == Len(s) >= Len(p) /\ SubSeq(s, 1, Len(p)) = p

\* substring(1, n): the first character dropped
Substring1(s, n) == SubSeq(s, 2, IF Len(s) < n THEN Len(s) ELSE n)

\* s.substring(0, n)
Substring0(s, n) == SubSeq(s, 1, IF Len(s) < n THEN Len(s) ELSE n)

\* s.includes(p)
Includes(s, p) ==
    \E i \in 1..(Len(s) - Len(p) + 1) : SubSeq(s, i, i + Len(p) - 1) = p

\* parts.join("\n")
RECURSIVE JoinLines(_)
JoinLines(parts) ==
    IF parts = <<>> THEN <<>>
    ELSE IF Len(parts) = 1 THEN parts[1]
    ELSE parts[1] \o <<"\n">> \o JoinLines(Tail(parts))

\* ch.startsWith("#") ? ch : `#${ch}`
NormalizeChannel(ch) == IF StartsWith(ch, <<"#">>) THEN ch ELSE <<"#">> \o ch

\* channels.map(normalize)
NormalizeAll(chs) == [i \in 1..Len(chs) |-> NormalizeChannel(chs[i])]

\* ---------------------------------------------------------------------------
\* Input values
\* ---------------------------------------------------------------------------

Bot      == <<"b", "o", "t">>
Bot2     == <<"b", "o", "t", "2">>
LongNick == <<"l", "o", "n", "g", "n", "i", "c", "k", "9">>
Amy      == <<"a", "m", "y">>

Dev      == <<"#", "d", "e", "v">>
Ops      == <<"#", "o", "p", "s">>
RawOps   == <<"o", "p", "s">>

\* Parameters of the connect action as the tool or command passes them; an
\* absent parameter is "" / <<>> / 0.
ConnectParams ==
    { [host |-> "irc.a", port |-> 0,    nickname |-> Bot,      channels |-> <<Dev>>],
      [host |-> "irc.b", port |-> 6697, nickname |-> Bot2,     channels |-> <<RawOps, Dev, RawOps>>],
      [host |-> "irc.a", port |-> 0,    nickname |-> LongNick, channels |-> <<Dev>>],
      [host |-> "",      port |-> 0,    nickname |-> Bot,      channels |-> <<>>],
      [host |-> "irc.a", port |-> 0,    nickname |-> <<>>,     channels |-> <<>>] }

\* The configuration file: servers and profiles (IRCConfig).
Servers == [libera |-> [host |-> "irc.a", port |-> 6697]]

Profiles ==
    [dev    |-> [server |-> "libera", nick |-> Bot,      channels |-> <<Dev>>,
                 autoConnect |-> TRUE,  agentsFile |-> "dev/AGENTS.md"],
     manual |-> [server |-> "libera", nick |-> Bot2,     channels |-> <<Dev>>,
                 autoConnect |-> FALSE, agentsFile |-> ""],
     long   |-> [server |-> "libera", nick |-> LongNick, channels |-> <<Dev>>,
                 autoConnect |-> TRUE,  agentsFile |-> ""],
     badsrv |-> [server |-> "gone",   nick |-> Bot,      channels |-> <<Dev>>,
                 autoConnect |-> TRUE,  agentsFile |-> ""]]

\* Values of the --irc-profile flag ("" is the default: no flag).
ProfileFlags == {"", "nope", "dev", "manual", "long", "badsrv"}

\* Content of the profile's AGENTS.md file when it can be read.
AgentsFileContent == "RULES"

\* ---------------------------------------------------------------------------
\* State
\* ---------------------------------------------------------------------------

VARIABLES
    ircClient,            \* let ircClient: 0 is null, else the id of a transport
    currentState,         \* let currentState: IRCState | null
    cachedAgentsContent,  \* let cachedAgentsContent: "" is null
    clients,              \* the transport instances created so far, by id
    messageBuffers,       \* const messageBuffers: key -> MessageBuffer
    eventBuffers,         \* const eventBuffers: key -> EventBuffer
    sessionStart,         \* position of the async session_start handler
    out,                  \* transport calls made by the last step
    sent,                 \* agent-API calls made by the last step
    last,                 \* the last step: handler or event, and its result
    now                   \* the time in ms since the extension was loaded

vars == <<ircClient, currentState, cachedAgentsContent, clients, messageBuffers,
          eventBuffers, sessionStart, out, sent, last, now>>

\* currentState = null
NullState ==
    [present |-> FALSE, connected |-> FALSE, host |-> "", port |-> 0,
     nick |-> <<>>, channels |-> <<>>, profileName |-> ""]

\* A transport instance right after new IRCClient() and connect().  sock is
\* the transport's own condition; nick is client.user.nick; quit says that
\* quit() was called on it.  promise, timeout, onRegistered and onError are
\* the pending handleConnect call that created it: the state of its promise,
\* whether its 10 s timer is armed, and whether its two once-listeners are
\* still attached to this instance.  args are the parameters that call closed
\* over.  An instance created by session_start has promise "none".
NewClient(nick, promise, args) ==
    [sock |-> "connecting", nick |-> nick, quit |-> FALSE,
     promise |-> promise, timeout |-> promise = "pending",
     onRegistered |-> promise = "pending", onError |-> promise = "pending",
     args |-> args]

NoArgs == [host |-> "", port |-> 0, nick |-> <<>>, channels |-> <<>>]

ClientIds == 1..Len(clients)

\* A transport call: ircClient.op(arg)
Call(c, op, arg) == [client |-> c, op |-> op, arg |-> arg]

\* if (ircClient && currentState?.connected)
IsConnected == ircClient # 0 /\ currentState.present /\ currentState.connected

Init ==
    /\ ircClient = 0
    /\ currentState = NullState
    /\ cachedAgentsContent = ""
    /\ clients = <<>>
    /\ messageBuffers = <<>>
    /\ eventBuffers = <<>>
    /\ sessionStart = [pc |-> "idle", profileName |-> ""]
    /\ out = <<>>
    /\ sent = <<>>
    /\ last = [op |-> "init", client |-> 0, ret |-> [error |-> "-"]]
    /\ now = 0

\* No value is returned to any caller in this step.
NoReturn == [error |-> "-"]

\* The listener returned without recording the event.
Ignored == [error |-> "ignored"]

\* The step recorded or flushed the buffer under key.
Recorded(key) == [error |-> "-", key |-> key]

\* The timer callback flushed the buffer under key, whose payloads had
\* arrived at these times.
Flushed(key, times) == [error |-> "-", key |-> key, times |-> times]

\* The last step: the handler or event that ran, the transport concerned
\* (0 if none) and the value returned to a caller in this step.  For connect
\* the value is [error |-> "pending"] while its promise is pending, and the
\* step that settles the promise carries the value the call returns.
Step(op, c, ret) == last' = [op |-> op, client |-> c, ret |-> ret]

\* ---------------------------------------------------------------------------
\* connect
\* ---------------------------------------------------------------------------

\* The .catch without `currentState = null`: the transport reference is
\* released and the session stays.
ConnectCatchKeepsSession(op, c, cs, message) ==
    /\ IF ircClient # 0
       THEN /\ out' = <<Call(ircClient, "quit", <<>>)>>
            /\ clients' = [cs EXCEPT ![ircClient].quit = TRUE]
       ELSE /\ out' = <<>>
            /\ clients' = cs
    /\ ircClient' = 0
    /\ UNCHANGED currentState
    /\ Step(op, c, [error |-> message])

\* The .catch of handleConnect's promise, for the call that created transport
\* c: roll back and return the error.  cs is the transport table so far.
ConnectCatch(op, c, cs, message) ==
    /\ IF ircClient # 0
       THEN /\ out' = <<Call(ircClient, "quit", <<>>)>>
            /\ clients' = [cs EXCEPT ![ircClient].quit = TRUE]
       ELSE /\ out' = <<>>
            /\ clients' = cs
    /\ ircClient' = 0
    /\ currentState' = NullState
    /\ Step(op, c, [error |-> message])

handleConnect(params) ==
    IF IsConnected
    THEN /\ Step("connect", 0, [error |-> "already_connected", nick |-> currentState.nick])
         /\ out' = <<>>
         /\ UNCHANGED <<ircClient, currentState, clients>>
    ELSE
      LET host     == params.host
          port     == IF params.port = 0 THEN DefaultPort ELSE params.port
          nick     == params.nickname
          channels == NormalizeAll(params.channels)
          id       == Len(clients) + 1
      IN  IF Len(nick) > MaxNickLen
          THEN /\ Step("connect", 0, [error |-> "nickname_too_long", nickname |-> nick,
                                      suggested |-> Substring0(nick, MaxNickLen)])
               /\ out' = <<>>
               /\ UNCHANGED <<ircClient, currentState, clients>>
          ELSE /\ Len(clients) < MaxClients
               /\ currentState' = [present |-> TRUE, connected |-> FALSE, host |-> host,
                                   port |-> port, nick |-> nick, channels |-> channels,
                                   profileName |-> ""]
               /\ ircClient' = id
               /\ clients' = Append(clients,
                     NewClient(nick, "pending",
                               [host |-> host, port |-> port, nick |-> nick,
                                channels |-> channels]))
               /\ out' = <<Call(id, "connect", <<host, port, nick>>)>>
               /\ Step("connect", id, [error |-> "pending"])

\* dispatch, case "connect", without the test of host and nickname
ConnectUnchecked(params) ==
    /\ handleConnect(params)
    /\ sent' = <<>>
    /\ UNCHANGED <<cachedAgentsContent, messageBuffers, eventBuffers, sessionStart, now>>

\* dispatch, case "connect"
Connect(params) ==
    /\ IF params.host = "" \/ params.nickname = <<>>
       THEN /\ Step("connect", 0, [error |-> "missing_connect_params"])
            /\ out' = <<>>
            /\ UNCHANGED <<ircClient, currentState, clients>>
       ELSE handleConnect(params)
    /\ sent' = <<>>
    /\ UNCHANGED <<cachedAgentsContent, messageBuffers, eventBuffers, sessionStart, now>>

\* The 10 s timer of the handleConnect call that created transport c fires:
\* reject(new Error("Connection timeout (10s)")), then the .catch.  The timer
\* is armed only while the promise is pending (both settling listeners clear
\* it first).
ConnectTimeout(c) ==
    /\ clients[c].timeout
    /\ clients[c].promise = "pending"
    /\ ConnectCatch("timeout", c,
                    [clients EXCEPT ![c].timeout = FALSE, ![c].promise = "rejected"],
                    "Connection timeout (10s)")
    /\ sent' = <<>>
    /\ UNCHANGED <<cachedAgentsContent, messageBuffers, eventBuffers, sessionStart, now>>

\* ---------------------------------------------------------------------------
\* Transport events (listeners attached by setupClient and by handleConnect)
\* ---------------------------------------------------------------------------

\* The join calls of the "registered" listener, in array order.
JoinCalls(channels) == [i \in 1..Len(channels) |-> Call(ircClient, "join", channels[i])]

\* Transport c emits "registered".  Listeners run in the order they were
\* attached: setupClient's, then handleConnect's onRegistered (a once
\* listener).  ircClient and currentState are the module's variables at the
\* time of the event, whichever transport emits it.  ircClient!.join on a
\* null ircClient throws out of emit, and the listeners after it do not run.
Registered(c) ==
    /\ clients[c].sock = "connecting"
    /\ LET throws   == currentState.present /\ ircClient = 0 /\ currentState.channels # <<>>
           settles  == clients[c].onRegistered /\ ~throws
           resolves == settles /\ clients[c].promise = "pending"
           a        == clients[c].args
       IN  /\ currentState' = IF currentState.present
                              THEN [currentState EXCEPT !.connected = TRUE]
                              ELSE currentState
           /\ out' = IF currentState.present /\ ~throws
                     THEN JoinCalls(currentState.channels) ELSE <<>>
           /\ clients' = [clients EXCEPT
                  ![c].sock = "registered",
                  ![c].onRegistered = IF settles THEN FALSE ELSE @,
                  ![c].timeout = IF settles THEN FALSE ELSE @,
                  ![c].onError = IF settles /\ ircClient = c THEN FALSE ELSE @,
                  ![c].promise = IF resolves THEN "resolved" ELSE @]
           /\ Step(IF throws THEN "registered throws" ELSE "registered", c,
                   IF resolves
                   THEN [error |-> "", host |-> a.host, port |-> a.port, nick |-> a.nick,
                         channels |-> a.channels, connected |-> TRUE]
                   ELSE NoReturn)
    /\ sent' = <<>>
    /\ UNCHANGED <<ircClient, cachedAgentsContent, messageBuffers, eventBuffers, sessionStart, now>>

\* Transport c emits "socket error": setupClient's listener only notifies the
\* UI; handleConnect's onError (a once listener), if still attached, rejects.
SocketError(c) ==
    /\ clients[c].sock # "closed"
    /\ LET settles == clients[c].onError
           rejects == settles /\ clients[c].promise = "pending"
           cs == [clients EXCEPT
                  ![c].onError = FALSE,
                  ![c].timeout = IF settles THEN FALSE ELSE @,
                  ![c].onRegistered = IF settles /\ ircClient = c THEN FALSE ELSE @,
                  ![c].promise = IF rejects THEN "rejected" ELSE @]
       IN  IF rejects
           THEN ConnectCatch("socket error", c, cs, "Connection failed")
           ELSE /\ clients' = cs
                /\ out' = <<>>
                /\ Step("socket error", c, NoReturn)
                /\ UNCHANGED <<ircClient, currentState>>
    /\ sent' = <<>>
    /\ UNCHANGED <<cachedAgentsContent, messageBuffers, eventBuffers, sessionStart, now>>

\* Transport c emits "close".
Close(c) ==
    /\ clients[c].sock # "closed"
    /\ clients' = [clients EXCEPT ![c].sock = "closed"]
    /\ currentState' = IF currentState.present
                       THEN [currentState EXCEPT !.connected = FALSE]
                       ELSE currentState
    /\ Step("close", c, NoReturn)
    /\ out' = <<>>
    /\ sent' = <<>>
    /\ UNCHANGED <<ircClient, cachedAgentsContent, messageBuffers, eventBuffers, sessionStart, now>>

\* ---------------------------------------------------------------------------
\* disconnect, info, send
\* ---------------------------------------------------------------------------

NotConnected == [error |-> "not_connected"]

\* handleDisconnect without the reset of cachedAgentsContent
handleDisconnectKeepsCache ==
    IF ~IsConnected
    THEN /\ Step("disconnect", 0, NotConnected)
         /\ out' = <<>>
         /\ UNCHANGED <<ircClient, currentState, cachedAgentsContent, clients>>
    ELSE /\ out' = <<Call(ircClient, "quit", <<>>)>>
         /\ clients' = [clients EXCEPT ![ircClient].quit = TRUE]
         /\ ircClient' = 0
         /\ currentState' = NullState
         /\ UNCHANGED cachedAgentsContent
         /\ Step("disconnect", ircClient, [error |-> ""])

handleDisconnect ==
    IF ~IsConnected
    THEN /\ Step("disconnect", 0, NotConnected)
         /\ out' = <<>>
         /\ UNCHANGED <<ircClient, currentState, cachedAgentsContent, clients>>
    ELSE /\ out' = <<Call(ircClient, "quit", <<>>)>>
         /\ clients' = [clients EXCEPT ![ircClient].quit = TRUE]
         /\ ircClient' = 0
         /\ currentState' = NullState
         /\ cachedAgentsContent' = ""
         /\ Step("disconnect", ircClient, [error |-> ""])

\* dispatch, case "disconnect"
Disconnect ==
    /\ handleDisconnect
    /\ sent' = <<>>
    /\ UNCHANGED <<messageBuffers, eventBuffers, sessionStart, now>>

\* The value handleSend returns in the current state.
handleSendReturn(params) ==
    IF ~IsConnected THEN NotConnected
    ELSE IF params.target = <<>> THEN [error |-> "missing_target"]
    ELSE IF params.message = <<>> THEN [error |-> "missing_message"]
    ELSE [error |-> "", target |-> params.target, message |-> params.message]

\* dispatch, case "send"
Send(params) ==
    /\ Step("send", 0, handleSendReturn(params))
    /\ out' = IF handleSendReturn(params).error = ""
              THEN <<Call(ircClient, "say", <<params.target, params.message>>)>>
              ELSE <<>>
    /\ sent' = <<>>
    /\ UNCHANGED <<ircClient, currentState, cachedAgentsContent, clients,
                   messageBuffers, eventBuffers, sessionStart, now>>

\* dispatch, case "info": the value handleInfo returns in the current state.
\* It changes no state.
handleInfo ==
    IF ~IsConnected THEN NotConnected
    ELSE [error |-> "", host |-> currentState.host, port |-> currentState.port,
          nick |-> currentState.nick, channels |-> currentState.channels]

\* pi.on("before_agent_start"): the text appended to the system prompt in the
\* current state ("" when the handler returns nothing).  It changes no state.
beforeAgentStart == IF cachedAgentsContent # "" THEN cachedAgentsContent ELSE ""

\* dispatch, case "info"
Info ==
    /\ Step("info", 0, handleInfo)
    /\ out' = <<>>
    /\ sent' = <<>>
    /\ UNCHANGED <<ircClient, currentState, cachedAgentsContent, clients,
                   messageBuffers, eventBuffers, sessionStart, now>>

\* ---------------------------------------------------------------------------
\* change_nick, list_channels, join, leave, unknown actions
\* ---------------------------------------------------------------------------

\* The value handleChangeNick returns in the current state.
handleChangeNickReturn(params) ==
    IF ~IsConnected THEN NotConnected
    ELSE IF params.new_nick = <<>> THEN [error |-> "missing_new_nick"]
    ELSE [error |-> "", oldNick |-> currentState.nick, newNick |-> params.new_nick]

\* dispatch, case "change_nick"
ChangeNick(params) ==
    /\ Step("change_nick", 0, handleChangeNickReturn(params))
    /\ out' = IF handleChangeNickReturn(params).error = ""
              THEN <<Call(ircClient, "changeNick", params.new_nick)>>
              ELSE <<>>
    /\ sent' = <<>>
    /\ UNCHANGED <<ircClient, currentState, cachedAgentsContent, clients,
                   messageBuffers, eventBuffers, sessionStart, now>>

\* The value handleListChannels returns in the current state.
handleListChannels ==
    IF ~IsConnected THEN NotConnected
    ELSE [error |-> "", host |-> currentState.host, nick |-> currentState.nick,
          channels |-> currentState.channels]

\* dispatch, case "list_channels"
ListChannels ==
    /\ Step("list_channels", 0, handleListChannels)
    /\ out' = <<>>
    /\ sent' = <<>>
    /\ UNCHANGED <<ircClient, currentState, cachedAgentsContent, clients,
                   messageBuffers, eventBuffers, sessionStart, now>>

\* array.includes(x)
ArrayIncludes(array, x) == \E i \in 1..Len(array) : array[i] = x

\* index = array.indexOf(x); if (index > -1) array.splice(index, 1)
SpliceFirst(array, x) ==
    IF ~ArrayIncludes(array, x) THEN array
    ELSE LET index == CHOOSE i \in 1..Len(array) :
                         array[i] = x /\ \A j \in 1..(i - 1) : array[j] # x
         IN  SubSeq(array, 1, index - 1) \o SubSeq(array, index + 1, Len(array))

\* The value handleJoin and handleLeave return in the current state.
handleChannelReturn(params) ==
    IF ~IsConnected THEN NotConnected
    ELSE IF params.channel = <<>> THEN [error |-> "missing_channel"]
    ELSE [error |-> "", channel |-> NormalizeChannel(params.channel)]

\* dispatch, case "join": handleJoin
JoinChannel(params) ==
    /\ Step("join channel", 0, handleChannelReturn(params))
    /\ IF handleChannelReturn(params).error = ""
       THEN LET normalizedChannel == NormalizeChannel(params.channel)
            IN  /\ out' = <<Call(ircClient, "join", normalizedChannel)>>
                /\ currentState' =
                      IF ArrayIncludes(currentState.channels, normalizedChannel)
                      THEN currentState
                      ELSE [currentState EXCEPT !.channels = Append(@, normalizedChannel)]
       ELSE /\ out' = <<>>
            /\ UNCHANGED currentState
    /\ sent' = <<>>
    /\ UNCHANGED <<ircClient, cachedAgentsContent, clients,
                   messageBuffers, eventBuffers, sessionStart, now>>

\* dispatch, case "leave": handleLeave
Leave(params) ==
    /\ Step("leave", 0, handleChannelReturn(params))
    /\ IF handleChannelReturn(params).error = ""
       THEN LET normalizedChannel == NormalizeChannel(params.channel)
            IN  /\ out' = <<Call(ircClient, "part", normalizedChannel)>>
                /\ currentState' =
                      [currentState EXCEPT !.channels = SpliceFirst(@, normalizedChannel)]
       ELSE /\ out' = <<>>
            /\ UNCHANGED currentState
    /\ sent' = <<>>
    /\ UNCHANGED <<ircClient, cachedAgentsContent, clients,
                   messageBuffers, eventBuffers, sessionStart, now>>

\* dispatch, default case: an action name that is none of the eight
UnknownAction(action) ==
    /\ Step("unknown", 0, [error |-> "unknown_action", action |-> action])
    /\ out' = <<>>
    /\ sent' = <<>>
    /\ UNCHANGED <<ircClient, currentState, cachedAgentsContent, clients,
                   messageBuffers, eventBuffers, sessionStart, now>>

\* ---------------------------------------------------------------------------
\* Auto-connect on session start
\* ---------------------------------------------------------------------------

\* getResolvedProfile: "notfound", "throws" (unknown server) or "ok".
ResolveStatus(name) ==
    IF name \notin DOMAIN Profiles THEN "notfound"
    ELSE IF Profiles[name].server \notin DOMAIN Servers THEN "throws"
    ELSE "ok"

\* session_start that goes on to connect whenever the profile resolves
SessionStartUnchecked(profileName) ==
    /\ sessionStart.pc = "idle"
    /\ LET st   == ResolveStatus(profileName)
           stop == IF profileName = "" THEN "no_profile"
                   ELSE IF st = "notfound" THEN "profile_not_found"
                   ELSE IF st = "throws" THEN "unknown_server"
                   ELSE ""
       IN  /\ sessionStart' = IF stop = "" THEN [pc |-> "loading", profileName |-> profileName]
                              ELSE sessionStart
           /\ cachedAgentsContent' = IF stop = "" THEN "" ELSE cachedAgentsContent
           /\ Step("session_start", 0, [error |-> stop])
    /\ out' = <<>>
    /\ sent' = <<>>
    /\ UNCHANGED <<ircClient, currentState, clients, messageBuffers, eventBuffers, now>>

\* session_start from its start to the await in loadAgentsFile: the flags,
\* the profile's resolution, the checks, then cachedAgentsContent = null.
\* (Nothing is read or written before the profile is resolved, so the await
\* of getResolvedProfile is not a separate step.)
SessionStart(profileName) ==
    /\ sessionStart.pc = "idle"
    /\ LET st   == ResolveStatus(profileName)
           stop == IF profileName = "" THEN "no_profile"
                   ELSE IF st = "notfound" THEN "profile_not_found"
                   ELSE IF st = "throws" THEN "unknown_server"
                   ELSE IF Len(Profiles[profileName].nick) > MaxNickLen THEN "nickname_too_long"
                   ELSE IF Profiles[profileName].autoConnect = FALSE THEN "auto_connect_off"
                   ELSE IF IsConnected THEN "already_connected"
                   ELSE ""
       IN  /\ sessionStart' = IF stop = "" THEN [pc |-> "loading", profileName |-> profileName]
                              ELSE sessionStart
           /\ cachedAgentsContent' = IF stop = "" THEN "" ELSE cachedAgentsContent
           /\ Step("session_start", 0, [error |-> stop])
    /\ out' = <<>>
    /\ sent' = <<>>
    /\ UNCHANGED <<ircClient, currentState, clients, messageBuffers, eventBuffers, now>>

\* The rest of loadAgentsFile (readable says whether readFile succeeds) and
\* the rest of session_start: the session, the transport and its connect.
SessionStartLoaded(readable) ==
    /\ sessionStart.pc = "loading"
    /\ Len(clients) < MaxClients
    /\ LET name    == sessionStart.profileName
           profile == Profiles[name]
           server  == Servers[profile.server]
           id      == Len(clients) + 1
       IN  /\ cachedAgentsContent' =
                 IF profile.agentsFile # "" /\ readable
                 THEN AgentsFileContent ELSE cachedAgentsContent
           /\ currentState' = [present |-> TRUE, connected |-> FALSE, host |-> server.host,
                               port |-> server.port, nick |-> profile.nick,
                               channels |-> profile.channels, profileName |-> name]
           /\ ircClient' = id
           /\ clients' = Append(clients, NewClient(profile.nick, "none", NoArgs))
           /\ out' = <<Call(id, "connect", <<server.host, server.port, profile.nick>>)>>
           /\ Step("session_start loaded", id, NoReturn)
    /\ sessionStart' = [pc |-> "idle", profileName |-> ""]
    /\ sent' = <<>>
    /\ UNCHANGED <<messageBuffers, eventBuffers, now>>

\* ---------------------------------------------------------------------------
\* Inbound chat: the "message" listener and the flush of a chat buffer
\* ---------------------------------------------------------------------------

\* m.set(key, value) and m.delete(key) on a Map held as a function
MapSet(m, key, value) == [k \in DOMAIN m \cup {key} |-> IF k = key THEN value ELSE m[k]]

MapDelete(m, key) == [k \in DOMAIN m \ {key} |-> m[k]]

\* `${event.target}:${event.nick}`
MessageKey(target, nick) == target \o <<":">> \o nick

\* A timer that is armed by the first record of a burst and left alone by
\* the following ones (a fixed-rate batch)
ArmOnce(buffer, delay) ==
    [buffer EXCEPT !.timers = IF buffer.timer THEN @ ELSE @ + 1,
                   !.timer = TRUE,
                   !.due = IF buffer.timer THEN @ ELSE now + delay]

\* A timer that is armed without cancelling the pending one
ArmWithoutClear(buffer, delay) ==
    [buffer EXCEPT !.timers = @ + 1,
                   !.timer = TRUE,
                   !.due = now + delay]

\* if (buffer.timer) clearTimeout(buffer.timer); ...;
\* buffer.timer = setTimeout(flush, delay)
\* timer says that the timer buffer.timer refers to is pending, due is the
\* time at which that timer fires, and timers counts the pending timers
\* whose callback flushes this buffer.
ClearAndArm(buffer, delay) ==
    [buffer EXCEPT !.timers = (IF buffer.timer THEN @ - 1 ELSE @) + 1,
                   !.timer = TRUE,
                   !.due = now + delay]

\* Transport c emits "message".  isDM is the value the pending timer's
\* closure holds (each event clears the timer and arms a new one with its own
\* isDM); times are the arrival times of the buffered messages.
Message(c, target, nick, text) ==
    /\ clients[c].sock = "registered"
    /\ IF ~currentState.present
       THEN /\ UNCHANGED messageBuffers
            /\ Step("message", c, Ignored)
       ELSE LET key    == MessageKey(target, nick)
                isDM   == target = currentState.nick
                buffer == IF key \in DOMAIN messageBuffers
                          THEN messageBuffers[key]
                          ELSE [nick |-> nick, target |-> target, messages |-> <<>>,
                                timer |-> FALSE, isDM |-> FALSE,
                                timers |-> 0, due |-> 0, times |-> <<>>]
            IN  /\ Len(buffer.messages) < MaxBurst
                /\ messageBuffers' = MapSet(messageBuffers, key,
                       [ClearAndArm(buffer, MESSAGE_BUFFER_DELAY_MS) EXCEPT
                           !.messages = Append(@, text),
                           !.times = Append(@, now),
                           !.isDM = isDM])
                /\ Step("message", c, Recorded(key))
    /\ out' = <<>>
    /\ sent' = <<>>
    /\ UNCHANGED <<ircClient, currentState, cachedAgentsContent, clients,
                   eventBuffers, sessionStart, now>>

\* The agent-API call of flushBuffer for a direct message
SteerCall(buffer, combined) ==
    [api |-> "sendUserMessage", deliverAs |-> "steer",
     content |-> <<"IRC DM from ">> \o buffer.nick \o <<": ">> \o combined]

\* The agent-API call of flushBuffer for a channel message
ChannelCall(buffer, combined, ourNick) ==
    [api |-> "sendMessage", customType |-> "irc_channel_message",
     content |-> <<"[">> \o buffer.target \o <<"] ">> \o buffer.nick \o <<": ">> \o combined,
     triggerTurn |-> Includes(combined, <<"@">> \o ourNick)]

\* The flush timer of the chat buffer under key fires: flushBuffer(buffer).
\* currentState!.nick on a null currentState throws a TypeError out of the
\* timer callback: nothing is sent and the entry is not deleted.
FlushMessage(key) ==
    /\ key \in DOMAIN messageBuffers
    /\ messageBuffers[key].timer
    /\ LET buffer   == messageBuffers[key]
           combined == JoinLines(buffer.messages)
       IN  IF buffer.isDM
           THEN /\ sent' = <<SteerCall(buffer, combined)>>
                /\ messageBuffers' = MapDelete(messageBuffers, key)
                /\ Step("flush message", 0, Flushed(key, buffer.times))
           ELSE IF ~currentState.present
           THEN /\ sent' = <<>>
                /\ messageBuffers' = [messageBuffers EXCEPT ![key].timer = FALSE,
                                                            ![key].timers = @ - 1]
                /\ Step("flush message", 0, [error |-> "TypeError", key |-> key])
           ELSE /\ sent' = <<ChannelCall(buffer, combined, currentState.nick)>>
                /\ messageBuffers' = MapDelete(messageBuffers, key)
                /\ Step("flush message", 0, Flushed(key, buffer.times))
    /\ out' = <<>>
    /\ UNCHANGED <<ircClient, currentState, cachedAgentsContent, clients,
                   eventBuffers, sessionStart, now>>

\* ---------------------------------------------------------------------------
\* Inbound membership: the "join" and "part" listeners and flushEventBuffer
\* ---------------------------------------------------------------------------

\* ircClient?.user.nick (<<>> stands for undefined)
OwnUserNick == IF ircClient = 0 THEN <<>> ELSE clients[ircClient].nick

\* The listeners' body with one timer variable shared by all channels: the
\* clearTimeout cancels the pending timer of whichever channel armed it.
RecordEventSharedTimer(channel, line) ==
    LET buffer == IF channel \in DOMAIN eventBuffers
                  THEN eventBuffers[channel]
                  ELSE [channel |-> channel, events |-> <<>>, timer |-> FALSE,
                        timers |-> 0, due |-> 0, times |-> <<>>]
    IN  /\ Len(buffer.events) < MaxBurst
        /\ eventBuffers' =
              [k \in DOMAIN eventBuffers \cup {channel} |->
                  IF k = channel
                  THEN [ClearAndArm(buffer, EVENT_BUFFER_DELAY_MS) EXCEPT
                           !.events = Append(@, line), !.times = Append(@, now)]
                  ELSE [eventBuffers[k] EXCEPT !.timer = FALSE]]

\* The body shared by the two listeners: buffer `line` under the channel.
RecordEvent(channel, line) ==
    LET buffer == IF channel \in DOMAIN eventBuffers
                  THEN eventBuffers[channel]
                  ELSE [channel |-> channel, events |-> <<>>, timer |-> FALSE,
                        timers |-> 0, due |-> 0, times |-> <<>>]
    IN  /\ Len(buffer.events) < MaxBurst
        /\ eventBuffers' = MapSet(eventBuffers, channel,
               [ClearAndArm(buffer, EVENT_BUFFER_DELAY_MS) EXCEPT
                   !.events = Append(@, line), !.times = Append(@, now)])

\* The listeners' body if the session followed the transport's own joins: an
\* event with ircClient's own nick appends the channel to the session's list.
MembershipTracksOwnJoins(c, op, verb, nick, channel) ==
    /\ clients[c].sock = "registered"
    /\ IF nick # OwnUserNick
       THEN /\ RecordEvent(channel, nick \o <<verb>> \o channel)
            /\ Step(op, c, Recorded(channel))
            /\ UNCHANGED currentState
       ELSE /\ UNCHANGED eventBuffers
            /\ Step(op, c, Ignored)
            /\ currentState' = IF currentState.present
                               THEN [currentState EXCEPT !.channels = Append(@, channel)]
                               ELSE currentState
    /\ out' = <<>>
    /\ sent' = <<>>
    /\ UNCHANGED <<ircClient, cachedAgentsContent, clients,
                   messageBuffers, sessionStart, now>>

\* Transport c emits "join" (verb " joined ") or "part" (verb " left "): an
\* event whose nick is not ircClient's own is buffered under its channel.
Membership(c, op, verb, nick, channel) ==
    /\ clients[c].sock = "registered"
    /\ IF nick # OwnUserNick
       THEN /\ RecordEvent(channel, nick \o <<verb>> \o channel)
            /\ Step(op, c, Recorded(channel))
       ELSE /\ UNCHANGED eventBuffers
            /\ Step(op, c, Ignored)
    /\ out' = <<>>
    /\ sent' = <<>>
    /\ UNCHANGED <<ircClient, currentState, cachedAgentsContent, clients,
                   messageBuffers, sessionStart, now>>

Join(c, nick, channel) == Membership(c, "join", " joined ", nick, channel)

Part(c, nick, channel) == Membership(c, "part", " left ", nick, channel)

\* flushEventBuffer with the turn trigger of a channel message
FlushEventsWithMention(key) ==
    /\ key \in DOMAIN eventBuffers
    /\ eventBuffers[key].timer
    /\ LET buffer == eventBuffers[key]
       IN  /\ sent' = <<[api |-> "sendMessage", customType |-> "irc_join_part",
                         content |-> JoinLines(buffer.events),
                         triggerTurn |-> Includes(JoinLines(buffer.events), <<"@">>)]>>
           /\ eventBuffers' = MapDelete(eventBuffers, key)
    /\ Step("flush events", 0, Flushed(key, eventBuffers[key].times))
    /\ out' = <<>>
    /\ UNCHANGED <<ircClient, currentState, cachedAgentsContent, clients,
                   messageBuffers, sessionStart, now>>

\* The flush timer of the membership buffer under key fires.
FlushEvents(key) ==
    /\ key \in DOMAIN eventBuffers
    /\ eventBuffers[key].timer
    /\ LET buffer == eventBuffers[key]
       IN  /\ sent' = <<[api |-> "sendMessage", customType |-> "irc_join_part",
                         content |-> JoinLines(buffer.events), triggerTurn |-> FALSE]>>
           /\ eventBuffers' = MapDelete(eventBuffers, key)
    /\ Step("flush events", 0, Flushed(key, eventBuffers[key].times))
    /\ out' = <<>>
    /\ UNCHANGED <<ircClient, currentState, cachedAgentsContent, clients,
                   messageBuffers, sessionStart, now>>

\* ---------------------------------------------------------------------------
\* Time
\* ---------------------------------------------------------------------------

\* The times at which the pending flush timers fire
DueTimes ==
    {messageBuffers[k].due : k \in {x \in DOMAIN messageBuffers : messageBuffers[x].timer}}
    \cup {eventBuffers[k].due : k \in {x \in DOMAIN eventBuffers : eventBuffers[x].timer}}

\* The least element of a non-empty set of numbers
Min(S) == CHOOSE x \in S : \A y \in S : x <= y

\* Time passes: by at most TickMs, and not beyond the time at which a pending
\* timer fires (the callback of a timer runs when the timer is due).
Tick ==
    /\ now < MaxTime
    /\ \A due \in DueTimes : due > now
    /\ now' = Min({now + TickMs, MaxTime} \cup DueTimes)
    /\ Step("tick", 0, NoReturn)
    /\ out' = <<>>
    /\ sent' = <<>>
    /\ UNCHANGED <<ircClient, currentState, cachedAgentsContent, clients,
                   messageBuffers, eventBuffers, sessionStart>>

\* The flush timer of the chat buffer under key fires when it is due.
TimedFlushMessage(key) ==
    /\ key \in DOMAIN messageBuffers
    /\ messageBuffers[key].due = now
    /\ FlushMessage(key)

\* The flush timer of the membership buffer under key fires when it is due.
TimedFlushEvents(key) ==
    /\ key \in DOMAIN eventBuffers
    /\ eventBuffers[key].due = now
    /\ FlushEvents(key)

\* ---------------------------------------------------------------------------
\* Server announcements: the "motd" and "topic" listeners
\* ---------------------------------------------------------------------------

\* Characters String.prototype.trim removes
WhiteSpace == {" ", "\n", "\t"}

\* s.trim()
RECURSIVE Trim(_)
Trim(s) ==
    IF s = <<>> THEN s
    ELSE IF Head(s) \in WhiteSpace THEN Trim(Tail(s))
    ELSE IF s[Len(s)] \in WhiteSpace THEN Trim(SubSeq(s, 1, Len(s) - 1))
    ELSE s

\* Transport c emits "motd" (<<>> stands for an absent or empty motd).
Motd(c, motd) ==
    /\ clients[c].sock = "registered"
    /\ sent' = IF Trim(motd) # <<>>
               THEN <<[api |-> "sendMessage", customType |-> "irc_motd",
                       content |-> <<"Server MOTD:\n">> \o motd, triggerTurn |-> FALSE]>>
               ELSE <<>>
    /\ Step("motd", c, NoReturn)
    /\ out' = <<>>
    /\ UNCHANGED <<ircClient, currentState, cachedAgentsContent, clients,
                   messageBuffers, eventBuffers, sessionStart, now>>

\* Transport c emits "topic" for a channel.
Topic(c, channel, topic) ==
    /\ clients[c].sock = "registered"
    /\ sent' = IF topic # <<>>
               THEN <<[api |-> "sendMessage", customType |-> "irc_channel_topic",
                       content |-> <<"Topic for ">> \o channel \o <<": ">> \o topic,
                       triggerTurn |-> FALSE]>>
               ELSE <<>>
    /\ Step("topic", c, NoReturn)
    /\ out' = <<>>
    /\ UNCHANGED <<ircClient, currentState, cachedAgentsContent, clients,
                   messageBuffers, eventBuffers, sessionStart, now>>

\* ---------------------------------------------------------------------------
\* The "nick" listener
\* ---------------------------------------------------------------------------

\* The "nick" listener without the test of the old nick
NickUnconditional(c, old, new) ==
    /\ clients[c].sock = "registered"
    /\ old # new
    /\ new # clients[c].nick
    /\ clients' = IF old = clients[c].nick THEN [clients EXCEPT ![c].nick = new]
                  ELSE clients
    /\ currentState' = IF currentState.present
                       THEN [currentState EXCEPT !.nick = new]
                       ELSE currentState
    /\ Step("nick", c, NoReturn)
    /\ out' = <<>>
    /\ sent' = <<>>
    /\ UNCHANGED <<ircClient, cachedAgentsContent, messageBuffers, eventBuffers,
                   sessionStart, now>>

\* Transport c emits "nick": the user called old is now called new.  The
\* transport keeps its own user.nick current; the listener follows the
\* change when old is the tracked nick.
Nick(c, old, new) ==
    /\ clients[c].sock = "registered"
    /\ old # new
    /\ new # clients[c].nick
    /\ clients' = IF old = clients[c].nick THEN [clients EXCEPT ![c].nick = new]
                  ELSE clients
    /\ currentState' = IF currentState.present /\ old = currentState.nick
                       THEN [currentState EXCEPT !.nick = new]
                       ELSE currentState
    /\ Step("nick", c, NoReturn)
    /\ out' = <<>>
    /\ sent' = <<>>
    /\ UNCHANGED <<ircClient, cachedAgentsContent, messageBuffers, eventBuffers,
                   sessionStart, now>>

\* ---------------------------------------------------------------------------
\* Specifications
\* ---------------------------------------------------------------------------

\* Inbound events the transports deliver
Hi    == <<"h", "i">>
AtBot == <<"@", "b", "o", "t">>

Targets  == {Bot, Dev}
Senders  == {Amy}
Texts    == {Hi, AtBot}
Channels == {Dev, Ops}
Nicks    == {Bot, Bot2}

\* Parameters of the send action
SendParams ==
    { [target |-> Dev,  message |-> Hi],
      [target |-> <<>>, message |-> Hi],
      [target |-> Dev,  message |-> <<>>] }

\* The users whose nick changes the transports report: our own and others
Users == Nicks \cup Senders

\* Announcement texts and member nicks, some containing "@bot"
Motds   == {<<>>, <<" ", "\n">>, AtBot}
Topics  == {<<>>, AtBot}
Members == {Amy, AtBot}

\* Parameters of the change_nick action
ChangeNickParams == { [new_nick |-> Bot2], [new_nick |-> <<>>] }

\* Parameters of the join and leave actions
ChannelParams == { [channel |-> Dev], [channel |-> RawOps], [channel |-> <<>>] }

\* Action names that dispatch does not know
UnknownActions == {"", "status"}

\* The connect requests of an owner who connects as "bot" and only when no
\* session exists, so that connections follow one another.
SequentialConnects ==
    {p \in ConnectParams : p.nickname = Bot /\ p.host # "" /\ ~currentState.present}

\* The connection lifecycle under the connect and disconnect actions.
Next ==
    \/ \E params \in ConnectParams : Connect(params)
    \/ \E c \in ClientIds : ConnectTimeout(c)
    \/ \E c \in ClientIds : Registered(c)
    \/ \E c \in ClientIds : SocketError(c)
    \/ \E c \in ClientIds : Close(c)
    \/ Disconnect

Spec == Init /\ [][Next]_vars

\* The connection lifecycle with auto-connect on session start.
NextAuto ==
    \/ \E name \in ProfileFlags : SessionStart(name)
    \/ \E readable \in BOOLEAN : SessionStartLoaded(readable)
    \/ \E params \in {p \in ConnectParams : p.port = 0} : Connect(params)
    \/ \E c \in ClientIds : ConnectTimeout(c)
    \/ \E c \in ClientIds : Registered(c)
    \/ \E c \in ClientIds : SocketError(c)
    \/ \E c \in ClientIds : Close(c)
    \/ Disconnect
    \/ \E params \in SendParams : Send(params)

SpecAuto == Init /\ [][NextAuto]_vars

\* The same, with the timer runtime's guarantee that an armed 10 s timer
\* fires; nothing obliges a transport to register, fail or close.
SpecAutoFair ==
    /\ Init
    /\ [][NextAuto]_vars
    /\ \A c \in 1..MaxClients : WF_vars(c \in ClientIds /\ ConnectTimeout(c))

\* Inbound chat, its debounced flushes and the routing of the flushed units,
\* over connect, nick change and disconnect.
NextRouting ==
    \/ \E params \in SequentialConnects : Connect(params)
    \/ \E c \in ClientIds : Registered(c)
    \/ Disconnect
    \/ \E c \in ClientIds, old, new \in Nicks : Nick(c, old, new)
    \/ \E c \in ClientIds, target \in Targets, nick \in Senders, text \in Texts :
          Message(c, target, nick, text)
    \/ \E key \in DOMAIN messageBuffers : FlushMessage(key)

SpecRouting == Init /\ [][NextRouting]_vars

\* Inbound chat and membership events of one connection and their flushes.
NextDebounce ==
    \/ \E params \in SequentialConnects : Connect(params)
    \/ \E c \in ClientIds : Registered(c)
    \/ Disconnect
    \/ \E c \in ClientIds, target \in Targets, nick \in Senders :
          Message(c, target, nick, Hi)
    \/ \E key \in DOMAIN messageBuffers : FlushMessage(key)
    \/ \E c \in ClientIds, nick \in Senders, channel \in Channels :
          Join(c, nick, channel)
    \/ \E c \in ClientIds, nick \in Senders, channel \in Channels :
          Part(c, nick, channel)
    \/ \E key \in DOMAIN eventBuffers : FlushEvents(key)

SpecDebounce == Init /\ [][NextDebounce]_vars

\* The same with "close" events, and with the timer runtime's guarantee that
\* an armed flush timer fires; nothing obliges a transport to emit an event
\* or the owner to act.
NextDelivery ==
    \/ NextDebounce
    \/ \E c \in ClientIds : Close(c)

SpecDelivery ==
    /\ Init
    /\ [][NextDelivery]_vars
    /\ \A target \in Targets, nick \in Senders :
          WF_vars(FlushMessage(MessageKey(target, nick)))
    /\ \A channel \in Channels : WF_vars(FlushEvents(channel))

\* Inbound chat and membership events of one connection (made at time 0) in
\* time, with the flush timers firing when they are due.
NextTimed ==
    \/ \E params \in SequentialConnects : now = 0 /\ Connect(params)
    \/ \E c \in ClientIds : now = 0 /\ Registered(c)
    \/ \E c \in ClientIds, nick \in Senders : Message(c, Bot, nick, Hi)
    \/ \E key \in DOMAIN messageBuffers : TimedFlushMessage(key)
    \/ \E c \in ClientIds, nick \in Senders : Join(c, nick, Dev)
    \/ \E key \in DOMAIN eventBuffers : TimedFlushEvents(key)
    \/ Tick

SpecTimed == Init /\ [][NextTimed]_vars

\* The channel list of a session under connect, join, leave and disconnect.
NextChannels ==
    \/ \E params \in {p \in ConnectParams : ~currentState.present} : Connect(params)
    \/ \E c \in ClientIds : Registered(c)
    \/ Disconnect
    \/ \E params \in ChannelParams : JoinChannel(params)
    \/ \E params \in ChannelParams : Leave(params)
    \/ ListChannels

SpecChannels == Init /\ [][NextChannels]_vars

\* Parameters of the change_nick action, a nine-character nick among them
NickRequests == { [new_nick |-> Bot2], [new_nick |-> LongNick], [new_nick |-> <<>>] }

\* The tracked nick under connect, auto-connect, change_nick and "nick"
\* events.  The transport reports a change of its own user's nick as the
\* confirmation of the changeNick request just made, and changes of another
\* user's nick at any time.
NextNick ==
    \/ \E name \in ProfileFlags : SessionStart(name)
    \/ \E readable \in BOOLEAN : SessionStartLoaded(readable)
    \/ \E params \in {p \in ConnectParams : p.port = 0} : Connect(params)
    \/ \E c \in ClientIds : Registered(c)
    \/ Disconnect
    \/ \E params \in NickRequests : ChangeNick(params)
    \/ \E params \in NickRequests :
          /\ ircClient # 0
          /\ out = <<Call(ircClient, "changeNick", params.new_nick)>>
          /\ Nick(ircClient, clients[ircClient].nick, params.new_nick)
    \/ \E c \in ClientIds, old \in Senders, new \in {Bot2, LongNick} : Nick(c, old, new)

SpecNick == Init /\ [][NextNick]_vars

\* Inbound events of every kind and their flushes, among the owner's
\* connect, disconnect, join and leave and the transports' socket errors,
\* for connections that follow one another.
NextInbound ==
    \/ \E params \in SequentialConnects : Connect(params)
    \/ \E c \in ClientIds : Registered(c)
    \/ \E c \in ClientIds : SocketError(c)
    \/ Disconnect
    \/ \E params \in {p \in ChannelParams : p.channel = RawOps} : JoinChannel(params)
    \/ \E params \in {p \in ChannelParams : p.channel = RawOps} : Leave(params)
    \/ \E c \in ClientIds : Message(c, Bot, Amy, AtBot)
    \/ \E key \in DOMAIN messageBuffers : FlushMessage(key)
    \/ \E c \in ClientIds, nick \in {Amy, Bot} : Join(c, nick, Ops)
    \/ \E c \in ClientIds : Part(c, Amy, Ops)
    \/ \E key \in DOMAIN eventBuffers : FlushEvents(key)
    \/ \E c \in ClientIds : Motd(c, AtBot)
    \/ \E c \in ClientIds : Topic(c, Ops, AtBot)

SpecInbound == Init /\ [][NextInbound]_vars

\* Membership events and server announcements of a connection.
NextAnnounce ==
    \/ \E params \in SequentialConnects : Connect(params)
    \/ \E c \in ClientIds : Registered(c)
    \/ Disconnect
    \/ \E c \in ClientIds, motd \in Motds : Motd(c, motd)
    \/ \E c \in ClientIds, channel \in Channels, topic \in Topics : Topic(c, channel, topic)
    \/ \E c \in ClientIds, nick \in Members, channel \in Channels :
          Join(c, nick, channel)
    \/ \E c \in ClientIds, nick \in Senders, channel \in Channels :
          Part(c, nick, channel)
    \/ \E key \in DOMAIN eventBuffers : FlushEvents(key)

SpecAnnounce == Init /\ [][NextAnnounce]_vars

\* The owner's actions through dispatch, over registration, close and nick
\* events of the transports.
NextActions ==
    \/ \E params \in {p \in ConnectParams : p.port = 0} : Connect(params)
    \/ \E c \in ClientIds : Registered(c)
    \/ \E c \in ClientIds : Close(c)
    \/ Disconnect
    \/ Info
    \/ \E params \in SendParams : Send(params)
    \/ \E params \in ChangeNickParams : ChangeNick(params)
    \/ ListChannels
    \/ \E params \in {p \in ChannelParams : p.channel # Dev} : JoinChannel(params)
    \/ \E params \in {p \in ChannelParams : p.channel # Dev} : Leave(params)
    \/ \E action \in UnknownActions : UnknownAction(action)
    \/ \E c \in ClientIds, old \in Users, new \in Nicks : Nick(c, old, new)

SpecActions == Init /\ [][NextActions]_vars

\* ---------------------------------------------------------------------------
\* Properties
\* ---------------------------------------------------------------------------

\* State Connecting: a session exists with connected = false and its
\* transport has not yet registered, failed or timed out.
Connecting ==
    /\ currentState.present
    /\ ~currentState.connected
    /\ ircClient # 0
    /\ clients[ircClient].sock = "connecting"
    /\ clients[ircClient].promise \in {"pending", "none"}

\* State Connected
Connected == currentState.present /\ currentState.connected

\* A connect request with host and nickname given and a nickname of legal
\* length.
WellFormed(params) ==
    params.host # "" /\ params.nickname # <<>> /\ Len(params.nickname) <= MaxNickLen

\* A transport instance is live: created and neither quit nor closed.
Live(c) == clients[c].sock # "closed" /\ ~clients[c].quit

\* The step leaves the session and the transport reference as they were,
\* creates no transport instance and makes no transport call.
NoTransportEffect ==
    /\ currentState' = currentState
    /\ ircClient' = ircClient
    /\ Len(clients') = Len(clients)
    /\ out' = <<>>

\* C1: a connect request issued while Connecting or Connected returns
\* AlreadyConnected, creates no transport instance, makes no transport call
\* and leaves the session and the transport reference unchanged.
C1_SecondConnectRejected ==
    [][\A params \in ConnectParams :
          (WellFormed(params) /\ (Connecting \/ Connected) /\ Connect(params))
          => (last'.ret.error = "already_connected" /\ NoTransportEffect)]_vars

\* C2: in every reachable state at most one transport instance is live.
C2_AtMostOneLive == Cardinality({c \in ClientIds : Live(c)}) <= 1

\* s is the first n characters of t
IsPrefixOfLength(s, t, n) == Len(s) = n /\ \A i \in 1..n : s[i] = t[i]

C4_FailedConnectRollsBack ==
    [][\A c \in ClientIds :
          /\ (clients[c].promise = "pending" /\ clients'[c].promise = "rejected")
             => (~currentState'.present /\ ircClient' = 0 /\ clients'[c].quit)
          /\ (clients[c].promise = "pending" /\ clients'[c].promise = "resolved")
             => /\ last'.ret.error = ""
                /\ Connected'
                /\ ircClient' = c
                /\ currentState'.host = clients[c].args.host
                /\ currentState'.port = clients[c].args.port
                /\ currentState'.nick = clients[c].args.nick
                /\ currentState'.channels = clients[c].args.channels]_vars

\* C8: disconnect invoked in state Connected sends exactly one quit on the
\* transport and leaves the transport reference absent, the session absent
\* and the cached AGENTS.md content cleared, so that info and send then
\* return NotConnected and before_agent_start injects nothing.
C8_DisconnectClears ==
    [][(IsConnected /\ Disconnect)
       => /\ out' = <<Call(ircClient, "quit", <<>>)>>
          /\ last'.ret.error = ""
          /\ ircClient' = 0
          /\ ~currentState'.present
          /\ cachedAgentsContent' = ""
          /\ handleInfo' = NotConnected
          /\ \A params \in SendParams : handleSendReturn(params)' = NotConnected
          /\ beforeAgentStart' = ""]_vars

\* C8 witness: a connection made by auto-connect (whose profile has an
\* AGENTS.md file) has been disconnected.
C8_Witness ==
    /\ last.op = "disconnect"
    /\ last.ret.error = ""
    /\ clients[last.client].promise = "none"
    /\ clients[last.client].quit

\* C9: when the transport of the current session emits "registered",
\* connected becomes true and one join request per listed channel is issued
\* on it, in list order; and no join request is issued on a transport that
\* has not registered.
C9_JoinsOnRegistration ==
    [][/\ \A c \in ClientIds :
             (Registered(c) /\ c = ircClient /\ currentState.present)
             => /\ currentState'.connected
                /\ Len(out') = Len(currentState.channels)
                /\ \A i \in 1..Len(out') :
                      out'[i] = Call(c, "join", currentState.channels[i])
       /\ \A i \in 1..Len(out') :
             out'[i].op = "join" => clients'[out'[i].client].sock = "registered"]_vars

\* C10: an event emitted by a transport that has been superseded or torn
\* down (it is not the one ircClient refers to) never changes the session of
\* a later connection and causes no transport call.
C10_StaleEventsIgnored ==
    [][\A c \in ClientIds :
          (c # ircClient /\ currentState.present
             /\ (Registered(c) \/ Close(c) \/ SocketError(c)))
          => (currentState' = currentState /\ ircClient' = ircClient /\ out' = <<>>)]_vars

\* s ends with suffix
EndsWith(s, suffix) ==
    Len(s) >= Len(suffix) /\ SubSeq(s, Len(s) - Len(suffix) + 1, Len(s)) = suffix

\* The entry of a buffer map under a key: <<>> when there is none
Entry(m, key) == IF key \in DOMAIN m THEN <<m[key]>> ELSE <<>>

\* C5: for one buffer key, records that each arrive before the pending flush
\* timer fires are appended in arrival order and the timer re-armed; when the
\* timer fires there is exactly one flush, whose content is all the buffered
\* payloads joined by newlines, and nothing of the burst stays buffered.
C5_BurstFlushedOnce ==
    [][/\ \A c \in ClientIds, target \in Targets, nick \in Senders, text \in Texts :
             (Message(c, target, nick, text) /\ currentState.present)
             => LET key == MessageKey(target, nick)
                    old == IF key \in DOMAIN messageBuffers
                           THEN messageBuffers[key].messages ELSE <<>>
                IN  /\ messageBuffers'[key].messages = Append(old, text)
                    /\ messageBuffers'[key].timer
       /\ \A key \in DOMAIN messageBuffers :
             FlushMessage(key)
             => /\ Len(sent') = 1
                /\ EndsWith(sent'[1].content, JoinLines(messageBuffers[key].messages))
                /\ key \notin DOMAIN messageBuffers'
       /\ \A key \in DOMAIN eventBuffers :
             FlushEvents(key)
             => /\ Len(sent') = 1
                /\ sent'[1].content = JoinLines(eventBuffers[key].events)
                /\ key \notin DOMAIN eventBuffers']_vars

\* Every chat buffer but the one under key is as it was
OtherMessagesUnchanged(key) ==
    \A k \in (DOMAIN messageBuffers \cup DOMAIN messageBuffers') \ {key} :
        Entry(messageBuffers', k) = Entry(messageBuffers, k)

\* Every membership buffer but the one under key is as it was
OtherEventsUnchanged(key) ==
    \A k \in (DOMAIN eventBuffers \cup DOMAIN eventBuffers') \ {key} :
        Entry(eventBuffers', k) = Entry(eventBuffers, k)

\* C6: recording an event for a key, and flushing a key, leave the buffered
\* payloads and the pending timer of every other key as they were (a timer
\* that is not cancelled, restarted or fired leaves its entry unchanged), and
\* a membership flush contains only events of its own channel.
C6_KeysIsolated ==
    [][/\ last'.op = "message"
          => \A c \in ClientIds, target \in Targets, nick \in Senders, text \in Texts :
                Message(c, target, nick, text)
                => (OtherMessagesUnchanged(MessageKey(target, nick))
                    /\ eventBuffers' = eventBuffers)
       /\ last'.op = "flush message"
          => \A key \in DOMAIN messageBuffers :
                FlushMessage(key)
                => (OtherMessagesUnchanged(key) /\ eventBuffers' = eventBuffers)
       /\ last'.op \in {"join", "part"}
          => \A c \in ClientIds, nick \in Senders, channel \in Channels :
                (Join(c, nick, channel) \/ Part(c, nick, channel))
                => (OtherEventsUnchanged(channel) /\ messageBuffers' = messageBuffers)
       /\ last'.op = "flush events"
          => \A key \in DOMAIN eventBuffers :
                FlushEvents(key)
                => /\ OtherEventsUnchanged(key)
                   /\ messageBuffers' = messageBuffers
                   /\ Len(sent') = 1
                   /\ sent'[1].content = JoinLines(eventBuffers[key].events)
                   /\ \A i \in 1..Len(eventBuffers[key].events) :
                         EndsWith(eventBuffers[key].events[i], key)]_vars

\* C6 witness: one channel's membership buffer has just been flushed while
\* another channel's buffer and a chat buffer are pending with their timers.
C6_Witness ==
    /\ last.op = "flush events"
    /\ \E k \in DOMAIN eventBuffers :
          k # last.ret.key /\ eventBuffers[k].timer /\ Len(eventBuffers[k].events) = 2
    /\ \E k \in DOMAIN messageBuffers : messageBuffers[k].timer

\* C7: every flushed chat unit is delivered: as Steer if its target was the
\* session's own nick (when its last message arrived, the reading of the
\* claim that follows the code), otherwise as Context with triggerTurn true
\* exactly when the combined text contains "@" followed by the session nick.
C7_SteerOrContext ==
    [][\A key \in DOMAIN messageBuffers :
          FlushMessage(key)
          => LET buffer   == messageBuffers[key]
                 combined == JoinLines(buffer.messages)
             IN  /\ Len(sent') = 1
                 /\ IF buffer.isDM
                    THEN sent'[1].api = "sendUserMessage" /\ sent'[1].deliverAs = "steer"
                    ELSE /\ sent'[1].api = "sendMessage"
                         /\ sent'[1].triggerTurn =
                               Includes(combined, <<"@">> \o currentState.nick)]_vars

\* C11: after a disconnect no flush timer armed during the torn-down
\* connection is pending and no payload buffered during it remains to be
\* delivered or merged into a later unit.
C11_DisconnectDropsBuffers ==
    [][(IsConnected /\ Disconnect)
       => /\ \A key \in DOMAIN messageBuffers' :
                ~messageBuffers'[key].timer /\ messageBuffers'[key].messages = <<>>
          /\ \A key \in DOMAIN eventBuffers' :
                ~eventBuffers'[key].timer /\ eventBuffers'[key].events = <<>>]_vars

\* C12: change_nick sends the request to the transport and leaves the
\* session unchanged; a "nick" event whose old nick is the tracked nick sets
\* the tracked nick to the event's new nick, and one whose old nick differs
\* leaves the session unchanged; the nick of a session changes in no other
\* step (a connect step replaces the session by a new one).
C12_NickFollowsConfirmation ==
    [][/\ \A params \in ChangeNickParams :
             (last'.op = "change_nick" /\ ChangeNick(params))
             => /\ currentState' = currentState
                /\ (IsConnected /\ params.new_nick # <<>>)
                   => out' = <<Call(ircClient, "changeNick", params.new_nick)>>
       /\ \A c \in ClientIds, old, new \in Users :
             (last'.op = "nick" /\ currentState.present /\ Nick(c, old, new))
             => currentState' = IF old = currentState.nick
                                THEN [currentState EXCEPT !.nick = new]
                                ELSE currentState
       /\ (currentState.present /\ currentState'.present
             /\ currentState'.nick # currentState.nick)
          => last'.op \in {"nick", "connect"}]_vars

\* C12 witness: a session opened as "bot" tracks "bot2" after a "nick" event.
C12_Witness ==
    /\ last.op = "nick"
    /\ IsConnected
    /\ clients[ircClient].args.nick = Bot
    /\ currentState.nick = Bot2

\* info, send, join, leave, change_nick and list_channels all return
\* NotConnected in the current state.
AllNotConnected ==
    /\ handleInfo = NotConnected
    /\ handleListChannels = NotConnected
    /\ \A params \in SendParams : handleSendReturn(params) = NotConnected
    /\ \A params \in ChangeNickParams : handleChangeNickReturn(params) = NotConnected
    /\ \A params \in ChannelParams : handleChannelReturn(params) = NotConnected

\* State Closed: the transport the session refers to has emitted "close".
Closed == currentState.present /\ ircClient # 0 /\ clients[ircClient].sock = "closed"

\* C13: a "close" event received while a session exists sets connected to
\* false, after which the six actions return NotConnected; and they keep
\* returning NotConnected while the session's transport is the closed one
\* (until a connect creates a new transport and it registers).
C13_CloseDisconnects ==
    [][/\ \A c \in ClientIds :
             (Close(c) /\ currentState.present)
             => (~currentState'.connected /\ AllNotConnected')
       /\ Closed => AllNotConnected']_vars

\* Every agent-API call of the step is a context message without turn
\* trigger (never a steering user message).
PassiveContext ==
    \A i \in 1..Len(sent') :
        sent'[i].api = "sendMessage" /\ sent'[i].triggerTurn = FALSE

\* C14: every flushed membership unit, every MOTD announcement and every
\* topic announcement is delivered by one context message with triggerTurn
\* false, whatever nick or text it contains.
C14_AnnouncementsNeverSteer ==
    [][/\ \A key \in DOMAIN eventBuffers :
             (last'.op = "flush events" /\ FlushEvents(key))
             => (Len(sent') = 1 /\ PassiveContext)
       /\ \A c \in ClientIds, motd \in Motds :
             (last'.op = "motd" /\ Motd(c, motd))
             => (PassiveContext /\ (Trim(motd) # <<>> => Len(sent') = 1))
       /\ \A c \in ClientIds, channel \in Channels, topic \in Topics :
             (last'.op = "topic" /\ Topic(c, channel, topic))
             => (PassiveContext /\ (topic # <<>> => Len(sent') = 1))]_vars

\* C14 witness: a membership unit that contains "@" followed by the session's
\* nick has just been delivered.
C14_Witness ==
    /\ last.op = "flush events"
    /\ currentState.present
    /\ Len(sent) = 1
    /\ Includes(sent[1].content, <<"@">> \o currentState.nick)

\* The step returns a structured error to its caller and has no transport
\* effect.
RejectedWithoutEffect ==
    /\ last'.ret.error \notin {"", "-", "pending"}
    /\ NoTransportEffect

\* C15: send without target or message, join or leave without channel,
\* change_nick without new_nick, connect without host or nickname, and an
\* unknown action name each return a structured error, make no transport
\* call and leave the session and the transport reference unchanged.
C15_ValidationErrors ==
    [][/\ \A params \in SendParams :
             ((params.target = <<>> \/ params.message = <<>>) /\ Send(params))
             => RejectedWithoutEffect
       /\ \A params \in ChannelParams :
             (params.channel = <<>> /\ (JoinChannel(params) \/ Leave(params)))
             => RejectedWithoutEffect
       /\ \A params \in ChangeNickParams :
             (params.new_nick = <<>> /\ ChangeNick(params)) => RejectedWithoutEffect
       /\ \A params \in ConnectParams :
             ((params.host = "" \/ params.nickname = <<>>) /\ Connect(params))
             => RejectedWithoutEffect
       /\ \A action \in UnknownActions :
             UnknownAction(action) => RejectedWithoutEffect]_vars

\* C15 witness: join without a channel was rejected while connected.
C15_Witness ==
    /\ last.op = "join channel"
    /\ last.ret.error = "missing_channel"
    /\ IsConnected

\* Auto-connect with this profile name fails before connecting or is
\* declined in the current state.
AutoConnectStops(name) ==
    \/ name \notin DOMAIN Profiles
    \/ Profiles[name].server \notin DOMAIN Servers
    \/ Len(Profiles[name].nick) > 8
    \/ Profiles[name].autoConnect = FALSE
    \/ IsConnected

C17_AgentsOnlyWhileConnected ==
    beforeAgentStart # "" => (currentState.present /\ currentState.connected)

\* The last element of a non-empty sequence
Last(seq) == seq[Len(seq)]

\* C18: the flush of a key fires exactly one quiet interval (1000 ms for
\* chat, 2000 ms for membership) after the most recent record for the key,
\* with all the payloads of the burst; and time never passes that instant
\* with the flush still pending.
C18_FlushAfterQuietInterval ==
    [][/\ \A key \in DOMAIN messageBuffers :
             FlushMessage(key)
             => /\ now = Last(messageBuffers[key].times) + 1000
                /\ Len(sent') = 1
                /\ EndsWith(sent'[1].content, JoinLines(messageBuffers[key].messages))
       /\ \A key \in DOMAIN eventBuffers :
             FlushEvents(key)
             => /\ now = Last(eventBuffers[key].times) + 2000
                /\ Len(sent') = 1
                /\ sent'[1].content = JoinLines(eventBuffers[key].events)
       /\ \A key \in DOMAIN messageBuffers' :
             messageBuffers'[key].timer
             => now' <= Last(messageBuffers'[key].times) + 1000
       /\ \A key \in DOMAIN eventBuffers' :
             eventBuffers'[key].timer
             => now' <= Last(eventBuffers'[key].times) + 2000]_vars

\* C18 witness: two chat payloads recorded at 0 and at 400 ms have been
\* flushed as one unit at 1400 ms.
C18_Witness ==
    /\ last.op = "flush message"
    /\ last.ret.times = <<0, 400>>
    /\ now = 1400
    /\ Len(sent) = 1
    /\ EndsWith(sent[1].content, JoinLines(<<Hi, Hi>>))

\* C19: in every reachable state each chat buffer key and each membership
\* buffer key has at most one pending flush timer.
C19_OneTimerPerKey ==
    /\ \A key \in DOMAIN messageBuffers : messageBuffers[key].timers <= 1
    /\ \A key \in DOMAIN eventBuffers : eventBuffers[key].timers <= 1

\* C19 witness: a part event delivered by a superseded transport has just
\* been recorded after a join event of the same channel, re-arming the
\* channel's timer.
C19_Witness ==
    /\ last.op = "part"
    /\ ircClient # 0
    /\ last.client # ircClient
    /\ last.ret.error = "-"
    /\ LET buffer == eventBuffers[last.ret.key]
       IN  /\ Len(buffer.events) = 2
           /\ buffer.events[1] # buffer.events[2]
           /\ buffer.timers = 1

\* C20: immediately after the flush timer of a key fires, the buffer map has
\* no entry for the key, in every state in which the timer can fire.
C20_EntryDeletedOnFlush ==
    [][/\ \A key \in DOMAIN messageBuffers :
             FlushMessage(key) => key \notin DOMAIN messageBuffers'
       /\ \A key \in DOMAIN eventBuffers :
             FlushEvents(key) => key \notin DOMAIN eventBuffers']_vars

\* C21: a connect call has one outcome.  Once its promise is resolved by
\* "registered", it stays resolved and a later timer expiry or socket error
\* of its transport leaves the session and the transport reference alone;
\* once it is rejected by timeout or socket error, it stays rejected and a
\* later "registered" from its transport sets no session to connected and
\* issues no join.
C21_SingleOutcome ==
    [][\A c \in ClientIds :
          /\ clients[c].promise = "resolved"
             => /\ clients'[c].promise = "resolved"
                /\ (ConnectTimeout(c) \/ SocketError(c))
                   => (currentState' = currentState /\ ircClient' = ircClient)
          /\ clients[c].promise = "rejected"
             => /\ clients'[c].promise = "rejected"
                /\ Registered(c) => (currentState' = currentState /\ out' = <<>>)]_vars

\* State Idle: no session and no transport reference
Idle == ~currentState.present /\ ircClient = 0

\* C22: every connection attempt, started by the connect action or by
\* auto-connect on session start, eventually reaches Connected or is rolled
\* back to Idle.
C22_AttemptEnds == Connecting ~> (Connected \/ Idle)

\* C23: a transport that has emitted "close" stays closed and emits no
\* "registered"; while the session's transport is a closed one the session
\* does not become connected; and the connect that follows creates a new
\* transport and a new session made of that call's parameters only.
C23_ClosedIsTerminal ==
    [][/\ \A c \in ClientIds :
             clients[c].sock = "closed"
             => (clients'[c].sock = "closed" /\ ~Registered(c))
       /\ Closed => ~Connected'
       /\ (Closed /\ ircClient' # ircClient /\ ircClient' # 0)
          => /\ ircClient' = Len(clients) + 1
             /\ currentState' =
                   [present |-> TRUE, connected |-> FALSE, profileName |-> "",
                    host |-> clients'[ircClient'].args.host,
                    port |-> clients'[ircClient'].args.port,
                    nick |-> clients'[ircClient'].args.nick,
                    channels |-> clients'[ircClient'].args.channels]]_vars

\* The list without any occurrence of x
Without(list, x) == SelectSeq(list, LAMBDA y : y # x)

\* C24: while Connected, join sends one join request for the normalized
\* channel and appends it to the list only if it is not in it; leave sends
\* one part request and removes the normalized channel from the list (a
\* list that does not contain it is unchanged); the list is updated in the
\* step of the request.
C24_JoinLeaveUpdateList ==
    [][\A params \in ChannelParams :
          LET channel == NormalizeChannel(params.channel)
              list    == currentState.channels
          IN  /\ (IsConnected /\ params.channel # <<>> /\ JoinChannel(params))
                 => /\ out' = <<Call(ircClient, "join", channel)>>
                    /\ currentState'.channels =
                          IF ArrayIncludes(list, channel) THEN list
                          ELSE Append(list, channel)
              /\ (IsConnected /\ params.channel # <<>> /\ Leave(params))
                 => /\ out' = <<Call(ircClient, "part", channel)>>
                    /\ currentState'.channels = Without(list, channel)]_vars

\* C25: in every reachable state the channel list of the session contains
\* no channel name twice.
C25_ChannelListIsSet ==
    \A i, j \in 1..Len(currentState.channels) :
        currentState.channels[i] = currentState.channels[j] => i = j

\* C26: the mode and the turn trigger of a flushed chat unit are determined
\* by the unit and the nick the session tracks when the unit is flushed.  A
\* unit recorded and flushed under one tracked nick is steered exactly when
\* its target is that nick, so every flush must decide as if its events had
\* been recorded under the nick tracked at the flush.
C26_RoutingByNickAtFlush ==
    [][\A key \in DOMAIN messageBuffers :
          (currentState.present /\ FlushMessage(key))
          => LET buffer   == messageBuffers[key]
                 combined == JoinLines(buffer.messages)
             IN  /\ Len(sent') = 1
                 /\ (sent'[1].api = "sendUserMessage") = (buffer.target = currentState.nick)
                 /\ sent'[1].api = "sendMessage"
                    => sent'[1].triggerTurn =
                          Includes(combined, <<"@">> \o currentState.nick)]_vars

\* C27: every flush of a chat unit makes exactly one call to the agent
\* messaging API: sendUserMessage (steer) for a direct message, sendMessage
\* otherwise; a channel unit whose text mentions the session nick goes through
\* sendMessage with triggerTurn true, never through sendUserMessage.
C27_OneCallPerUnit ==
    [][\A key \in DOMAIN messageBuffers :
          FlushMessage(key)
          => LET buffer  == messageBuffers[key]
                 mention == Includes(JoinLines(buffer.messages),
                                     <<"@">> \o currentState.nick)
                 calls   == {i \in 1..Len(sent') :
                               sent'[i].api \in {"sendUserMessage", "sendMessage"}}
             IN  /\ Cardinality(calls) = 1
                 /\ \A i \in calls :
                       /\ (sent'[i].api = "sendUserMessage") = buffer.isDM
                       /\ (~buffer.isDM /\ mention)
                          => sent'[i].api = "sendMessage" /\ sent'[i].triggerTurn]_vars

\* C28: disconnect, send, change_nick, info, list_channels, join and leave
\* requested in Idle (never connected, or after a disconnect), in Connecting
\* or after the session's transport has closed return NotConnected, make no
\* transport call and leave the session, its channel list and the transport
\* reference unchanged.
C28_NotConnectedElsewhere ==
    [][(Idle \/ Connecting \/ Closed)
       => /\ ( \/ Disconnect
               \/ Info
               \/ ListChannels
               \/ \E params \in SendParams : Send(params)
               \/ \E params \in ChangeNickParams : ChangeNick(params)
               \/ \E params \in ChannelParams : JoinChannel(params) \/ Leave(params) )
             => (last'.ret = NotConnected /\ NoTransportEffect)]_vars

\* C29: between handler executions the transport reference is null exactly
\* when the session is null, and a session with connected = true has a
\* transport reference.
C29_ReferenceIffSession ==
    /\ (ircClient = 0) <=> ~currentState.present
    /\ (currentState.present /\ currentState.connected) => ircClient # 0

\* A connect that replaced an earlier attempt has been rolled back by the
\* timeout or the socket error of one of the two transports.
C29_Witness ==
    /\ last.op \in {"timeout", "socket error"}
    /\ last.ret # NoReturn
    /\ Len(clients) = 2
    /\ ircClient = 0
    /\ ~currentState.present

\* C30: in every reachable state with a session, the nick the session
\* tracks has at most 8 characters.
C30_TrackedNickShort ==
    currentState.present => Len(currentState.nick) <= MaxNickLen

\* The step is an inbound "message", "join", "part", "motd" or "topic" event,
\* a "socket error" of a transport that has registered, or a debounce flush.
InboundStep ==
    \/ /\ last'.op = "message"
       /\ \E c \in ClientIds, target \in Targets, nick \in Senders, text \in Texts :
             Message(c, target, nick, text)
    \/ /\ last'.op \in {"join", "part"}
       /\ \E c \in ClientIds, nick \in Users \cup Members, channel \in Channels :
             Join(c, nick, channel) \/ Part(c, nick, channel)
    \/ /\ last'.op = "motd"
       /\ \E c \in ClientIds, motd \in Motds : Motd(c, motd)
    \/ /\ last'.op = "topic"
       /\ \E c \in ClientIds, channel \in Channels, topic \in Topics :
             Topic(c, channel, topic)
    \/ /\ last'.op = "socket error"
       /\ \E c \in ClientIds : clients[c].sock = "registered" /\ SocketError(c)
    \/ \E key \in DOMAIN messageBuffers : FlushMessage(key)
    \/ \E key \in DOMAIN eventBuffers : FlushEvents(key)

PendingMessages(key) ==
    key \in DOMAIN messageBuffers /\ messageBuffers[key].messages # <<>>

PendingEvents(key) ==
    key \in DOMAIN eventBuffers /\ eventBuffers[key].events # <<>>

\* The last step flushed the buffer under the key as one unit to the agent.
DeliveredMessages(key) ==
    /\ last.op = "flush message"
    /\ last.ret.error = "-"
    /\ last.ret.key = key
    /\ Len(sent) = 1

DeliveredEvents(key) ==
    /\ last.op = "flush events"
    /\ last.ret.error = "-"
    /\ last.ret.key = key
    /\ Len(sent) = 1

\* C32: if armed flush timers eventually fire, the payloads buffered under a
\* chat key or a channel are eventually delivered to the agent as one unit,
\* whether or not the session is disconnected or closed in between.
C32_EventuallyDelivered ==
    /\ \A target \in Targets, nick \in Senders :
          PendingMessages(MessageKey(target, nick))
             ~> DeliveredMessages(MessageKey(target, nick))
    /\ \A channel \in Channels : PendingEvents(channel) ~> DeliveredEvents(channel)

====
